---- MODULE Spec2Model ----
(***************************************************************************)
(* Ranking metrics of rexmex (src/rexmex/metrics/ranking.py).              *)
(*                                                                         *)
(* The metrics are pure functions.  A behaviour of the model is one call:  *)
(* Init draws the function and its arguments, the function's action        *)
(* computes the outcome of the call as the code does.                      *)
(*                                                                         *)
(* Outcomes.  A call either raises or returns a float.  Floats are         *)
(* modelled as exact rationals in lowest terms plus the IEEE values nan    *)
(* and inf, so rounding of the last bit is not modelled:                   *)
(*   [kind |-> "float", num |-> n, den |-> d]   the value n/d, d > 0       *)
(*   [kind |-> "nan"]                           nan                        *)
(*   [kind |-> "inf"]                           inf                        *)
(*   [kind |-> "raise", exc |-> e]              exception e propagated     *)
(***************************************************************************)
EXTENDS Integers, Sequences, FiniteSets

VARIABLES fn, args, result

vars == <<fn, args, result>>

\* ------------------------------------------------------------------ bounds

\* Longest ranking drawn.
MaxLen == 3
\* Longest relevant_items array drawn.
MaxRel == 2
\* k is drawn from 1..MaxK and the default; MaxK > MaxLen so that k exceeds
\* every ranking's length in some calls.
MaxK == 4
\* Most rows in a batch (relevant_items or rankings of MAP@K).
MaxBatch == 2
\* The default of the k parameter.
DefaultK == 10

\* Item identifiers: the ones of the documented example. The metrics only
\* compare identifiers for equality.
Items == {1, 2, 3}

KValues == (1..MaxK) \cup {DefaultK}

Range(s) == {s[i] : i \in DOMAIN s}

SeqsUpTo(S, n) == UNION {[1..m -> S] : m \in 0..n}

\* Rows of a batch of rankings: every item ranked once.
RankingRows ==
    {r \in [1..Cardinality(Items) -> Items] : \A i, j \in DOMAIN r : i # j => r[i] # r[j]}

\* Rows of a batch of relevant items: MaxRel distinct items, ascending.
RelevantRows ==
    {r \in [1..MaxRel -> Items] : \A i, j \in DOMAIN r : i < j => r[i] < r[j]}

\* ------------------------------------------------------------------ floats

NaN == [kind |-> "nan"]

Inf == [kind |-> "inf"]

Raise(e) == [kind |-> "raise", exc |-> e]

Pending == [kind |-> "pending"]

RECURSIVE GCD(_, _)
GCD(a, b) == IF b = 0 THEN a ELSE GCD(b, a % b)

\* The rational n/d (n >= 0, d > 0) in lowest terms.
Float(n, d) ==
    LET g == GCD(n, d)
    IN  [kind |-> "float", num |-> n \div g, den |-> d \div g]

\* numpy's true division of a non-negative number by a non-negative integer:
\* x/0 does not raise, it is nan for x = 0 and inf otherwise.
TrueDivide(n, d) ==
    IF d = 0 THEN (IF n = 0 THEN NaN ELSE Inf) ELSE Float(n, d)

AddFloat(a, b) == Float(a.num * b.den + b.num * a.den, a.den * b.den)

RECURSIVE SumFloats(_, _)
SumFloats(xs, i) ==
    IF i > Len(xs) THEN Float(0, 1) ELSE AddFloat(xs[i], SumFloats(xs, i + 1))

\* Mutant of Mean: the mean of the empty list is 0.0.
MeanEmptyZero(xs) ==
    IF Len(xs) = 0 THEN Float(0, 1)
    ELSE IF \E i \in DOMAIN xs : xs[i].kind = "nan" THEN NaN
    ELSE LET s == SumFloats(xs, 1) IN Float(s.num, s.den * Len(xs))

\* np.mean of a list of floats: nan for the empty list, nan if any element is.
Mean(xs) ==
    IF Len(xs) = 0 THEN NaN
    ELSE IF \E i \in DOMAIN xs : xs[i].kind = "nan" THEN NaN
    ELSE LET s == SumFloats(xs, 1) IN Float(s.num, s.den * Len(xs))

\* ------------------------------------------------------------------ numpy

\* np.in1d(ar1, ar2): for each element of ar1, whether it is in ar2.
In1d(ar1, ar2) == [i \in 1..Len(ar1) |-> ar1[i] \in Range(ar2)]

\* Mutant of Argmax: the index of the last True.
ArgmaxLast(mask) ==
    IF \E i \in DOMAIN mask : mask[i]
    THEN (CHOOSE i \in DOMAIN mask : mask[i] /\ \A j \in (i + 1)..Len(mask) : ~mask[j]) - 1
    ELSE 0

\* ndarray.argmax of a non-empty boolean array: the 0-based index of the first
\* True, 0 when every element is False.
Argmax(mask) ==
    IF \E i \in DOMAIN mask : mask[i]
    THEN (CHOOSE i \in DOMAIN mask : mask[i] /\ \A j \in 1..(i - 1) : ~mask[j]) - 1
    ELSE 0

\* arr[mask] for a boolean mask of arr's length: the elements at the True places.
RECURSIVE BoolIndex(_, _, _)
BoolIndex(arr, mask, i) ==
    IF i > Len(arr) THEN <<>>
    ELSE (IF mask[i] THEN <<arr[i]>> ELSE <<>>) \o BoolIndex(arr, mask, i + 1)

\* ranking[:k] when the ranking is longer than k.
Truncate(ranking, k) ==
    IF Len(ranking) > k THEN SubSeq(ranking, 1, k) ELSE ranking

\* ---------------------------------------------------------------- metrics

\* Mutant of reciprocal_rank: an absent item gets reciprocal rank 0.0.
reciprocal_rank_absent_zero(relevant_item, ranking) ==
    LET mask == In1d(ranking, <<relevant_item>>)
    IN  IF Len(mask) = 0 THEN Raise("ValueError")
        ELSE IF \A i \in DOMAIN mask : ~mask[i] THEN Float(0, 1)
        ELSE TrueDivide(1, Argmax(mask) + 1)

reciprocal_rank(relevant_item, ranking) ==
    LET mask == In1d(ranking, <<relevant_item>>)
    IN  IF Len(mask) = 0
        THEN Raise("ValueError")  \* argmax of an empty sequence
        ELSE TrueDivide(1, Argmax(mask) + 1)

RECURSIVE MrrLoop(_, _, _, _)
MrrLoop(relevant_items, ranking, i, reciprocal_ranks) ==
    IF i > Len(relevant_items) THEN Mean(reciprocal_ranks)
    ELSE LET rr == reciprocal_rank(relevant_items[i], ranking)
         IN  IF rr.kind = "raise" THEN rr
             ELSE MrrLoop(relevant_items, ranking, i + 1, Append(reciprocal_ranks, rr))

\* Mutant of mean_reciprocal_rank: the sum is divided by the number of
\* distinct relevant items.
mean_reciprocal_rank_unique(relevant_items, ranking) ==
    LET r == MrrLoop(relevant_items, ranking, 1, <<>>)
    IN  IF r.kind = "float"
        THEN Float(r.num * Len(relevant_items),
                   r.den * Cardinality(Range(relevant_items)))
        ELSE r

mean_reciprocal_rank(relevant_items, ranking) ==
    MrrLoop(relevant_items, ranking, 1, <<>>)

\* Mutant of average_percision_at_k: the precisions are summed, not averaged.
average_percision_at_k_sum(relevant_items, ranking, k) ==
    LET r == Truncate(ranking, k)
        hits == In1d(r, relevant_items)
        ranks == [i \in 1..k |-> i]
    IN  IF Len(hits) # Len(ranks)
        THEN Raise("IndexError")
        ELSE LET ranksHit == BoolIndex(ranks, hits, 1)
                 p_at_ks == [j \in 1..Len(ranksHit) |-> TrueDivide(j, ranksHit[j])]
             IN  IF Len(p_at_ks) = 0 THEN NaN ELSE SumFloats(p_at_ks, 1)

average_percision_at_k(relevant_items, ranking, k) ==
    LET r == Truncate(ranking, k)
        hits == In1d(r, relevant_items)
        ranks == [i \in 1..k |-> i]
    IN  IF Len(hits) # Len(ranks)
        THEN Raise("IndexError")  \* boolean index did not match indexed array
        ELSE LET ranksHit == BoolIndex(ranks, hits, 1)
                 p_at_ks == [j \in 1..Len(ranksHit) |-> TrueDivide(j, ranksHit[j])]
             IN  Mean(p_at_ks)

\* zip stops at the shorter of its two arguments.
ZipLen(a, b) == IF Len(a) < Len(b) THEN Len(a) ELSE Len(b)

RECURSIVE MapLoop(_, _, _, _, _)
MapLoop(relevant_items, rankings, k, i, aps) ==
    IF i > ZipLen(relevant_items, rankings) THEN Mean(aps)
    ELSE LET ap == average_percision_at_k(relevant_items[i], rankings[i], k)
         IN  IF ap.kind = "raise" THEN ap
             ELSE MapLoop(relevant_items, rankings, k, i + 1, Append(aps, ap))

\* Mutant of mean_average_percision_at_k: batches of different lengths raise.
mean_average_percision_at_k_strict(relevant_items, rankings, k) ==
    IF Len(relevant_items) # Len(rankings)
    THEN Raise("ValueError")
    ELSE MapLoop(relevant_items, rankings, k, 1, <<>>)

mean_average_percision_at_k(relevant_items, rankings, k) ==
    MapLoop(relevant_items, rankings, k, 1, <<>>)

\* Mutant of hits_at_k: the hits are divided by k.
hits_at_k_over_k(relevant_items, ranking, k) ==
    LET r == Truncate(ranking, k)
        mask == In1d(r, relevant_items)
        hits == Cardinality({i \in DOMAIN mask : mask[i]})
    IN  TrueDivide(hits, k)

hits_at_k(relevant_items, ranking, k) ==
    LET r == Truncate(ranking, k)
        mask == In1d(r, relevant_items)
        hits == Cardinality({i \in DOMAIN mask : mask[i]})
    IN  TrueDivide(hits, Len(r))

\* ------------------------------------------------------------ state machine

Functions ==
    {"reciprocal_rank", "mean_reciprocal_rank", "average_percision_at_k",
     "mean_average_percision_at_k", "hits_at_k"}

ArgsOf(f) ==
    CASE f = "reciprocal_rank" ->
           [relevant_item : Items, ranking : SeqsUpTo(Items, MaxLen)]
      [] f = "mean_reciprocal_rank" ->
           [relevant_items : SeqsUpTo(Items, MaxRel), ranking : SeqsUpTo(Items, MaxLen)]
      [] f = "mean_average_percision_at_k" ->
           [relevant_items : SeqsUpTo(RelevantRows, MaxBatch),
            rankings : SeqsUpTo(RankingRows, MaxBatch), k : KValues]
      [] OTHER ->
           [relevant_items : SeqsUpTo(Items, MaxRel), ranking : SeqsUpTo(Items, MaxLen),
            k : KValues]

Init ==
    /\ fn \in Functions
    /\ args \in ArgsOf(fn)
    /\ result = Pending

CallReciprocalRank ==
    /\ fn = "reciprocal_rank" /\ result = Pending
    /\ result' = reciprocal_rank(args.relevant_item, args.ranking)
    /\ UNCHANGED <<fn, args>>

CallMeanReciprocalRank ==
    /\ fn = "mean_reciprocal_rank" /\ result = Pending
    /\ result' = mean_reciprocal_rank(args.relevant_items, args.ranking)
    /\ UNCHANGED <<fn, args>>

CallAveragePrecisionAtK ==
    /\ fn = "average_percision_at_k" /\ result = Pending
    /\ result' = average_percision_at_k(args.relevant_items, args.ranking, args.k)
    /\ UNCHANGED <<fn, args>>

CallMeanAveragePrecisionAtK ==
    /\ fn = "mean_average_percision_at_k" /\ result = Pending
    /\ result' = mean_average_percision_at_k(args.relevant_items, args.rankings, args.k)
    /\ UNCHANGED <<fn, args>>

CallHitsAtK ==
    /\ fn = "hits_at_k" /\ result = Pending
    /\ result' = hits_at_k(args.relevant_items, args.ranking, args.k)
    /\ UNCHANGED <<fn, args>>

Next ==
    \/ CallReciprocalRank
    \/ CallMeanReciprocalRank
    \/ CallAveragePrecisionAtK
    \/ CallMeanAveragePrecisionAtK
    \/ CallHitsAtK

Spec == Init /\ [][Next]_vars

\* ------------------------------------------------- vocabulary of the claims

Done == result.kind # "pending"

Called(f) == fn = f /\ Done

\* The float r is the rational n/d (d > 0).
IsRatio(r, n, d) == r.kind = "float" /\ r.num * d = n * r.den

\* The float r lies in the half-open interval (0, 1].
InUnitInterval(r) == r.kind = "float" /\ 0 < r.num /\ r.num <= r.den

Min(a, b) == IF a < b THEN a ELSE b

\* The length of the prefix a metric @k considers.
PrefixLen(ranking, k) == Min(k, Len(ranking))

\* The positions of the considered prefix that hold a relevant item.
HitPositions(relevant_items, ranking, k) ==
    {i \in 1..PrefixLen(ranking, k) : ranking[i] \in Range(relevant_items)}

HitsUpTo(H, i) == Cardinality({j \in H : j <= i})

RECURSIVE Factorial(_)
Factorial(n) == IF n = 0 THEN 1 ELSE n * Factorial(n - 1)

\* Sum over the hit positions i <= n of (hits at positions <= i) / i, times D.
RECURSIVE ScaledPrecisionSum(_, _, _)
ScaledPrecisionSum(H, D, n) ==
    IF n = 0 THEN 0
    ELSE (IF n \in H THEN HitsUpTo(H, n) * (D \div n) ELSE 0)
         + ScaledPrecisionSum(H, D, n - 1)

\* r is the mean, over the hit positions H (non-empty, within 1..n), of
\* (hits at positions <= i) / i.
IsMeanPrecision(r, H, n) ==
    /\ r.kind = "float"
    /\ r.num * Cardinality(H) * Factorial(n) =
           r.den * ScaledPrecisionSum(H, Factorial(n), n)

RECURSIVE DenProduct(_, _)
DenProduct(xs, i) == IF i > Len(xs) THEN 1 ELSE xs[i].den * DenProduct(xs, i + 1)

RECURSIVE ScaledSum(_, _, _)
ScaledSum(xs, D, i) ==
    IF i > Len(xs) THEN 0 ELSE xs[i].num * (D \div xs[i].den) + ScaledSum(xs, D, i + 1)

\* r is the arithmetic mean of the non-empty sequence of floats xs.
IsArithmeticMean(r, xs) ==
    /\ r.kind = "float"
    /\ r.num * Len(xs) * DenProduct(xs, 1) = r.den * ScaledSum(xs, DenProduct(xs, 1), 1)

\* The documented call of mean_average_percision_at_k, without its k.
DocRelevantItems == <<<<1, 2>>, <<2, 3>>>>

DocRankings == <<<<3, 2, 1>>, <<2, 1, 3>>>>

\* The average precisions of the pairs zip yields, in order.
PairAPs ==
    [i \in 1..Min(Len(args.relevant_items), Len(args.rankings)) |->
        average_percision_at_k(args.relevant_items[i], args.rankings[i], args.k)]

\* --------------------------------------------------------------- the claims

\* C1: for an item that occurs in the ranking (duplicates allowed),
\* reciprocal_rank returns 1/p, p the 1-based position of its first
\* occurrence; reciprocal_rank(3, [5,3,1]) = 1/2.
C1_ReciprocalRankFirstOccurrence ==
    /\ Called("reciprocal_rank") /\ args.relevant_item \in Range(args.ranking)
         => \E p \in DOMAIN args.ranking :
               /\ args.ranking[p] = args.relevant_item
               /\ \A q \in 1..(p - 1) : args.ranking[q] # args.relevant_item
               /\ IsRatio(result, 1, p)
    /\ IsRatio(reciprocal_rank(3, <<5, 3, 1>>), 1, 2)

\* A call on a ranking that repeats the item, the first occurrence not in front.
C1_Witness ==
    /\ Called("reciprocal_rank")
    /\ args.ranking = <<1, 3, 3>> /\ args.relevant_item = 3
    /\ IsRatio(result, 1, 2)

\* C2 as stated: for every ranking that does not contain the item,
\* reciprocal_rank does not raise and returns 1.0.
C2_AbsentItemReturnsOne ==
    Called("reciprocal_rank") /\ args.relevant_item \notin Range(args.ranking)
        => IsRatio(result, 1, 1)

\* C2 amended: for every non-empty ranking that does not contain the item,
\* reciprocal_rank does not raise and returns 1.0; on the empty ranking it
\* raises ValueError.
C2_AbsentItemNonEmptyRanking ==
    Called("reciprocal_rank") /\ args.relevant_item \notin Range(args.ranking)
        => IF Len(args.ranking) = 0
           THEN result = Raise("ValueError")
           ELSE IsRatio(result, 1, 1)

\* A call on a non-empty ranking without the item.
C2_Witness ==
    /\ Called("reciprocal_rank")
    /\ args.ranking = <<2, 3>> /\ args.relevant_item = 1
    /\ IsRatio(result, 1, 1)

\* C3: for every positive k with at least one relevant item among the first
\* min(k, len(ranking)) positions, average_percision_at_k returns the mean over
\* the hit positions i of (hits at positions <= i) / i.
C3_AveragePrecisionIsMeanOfPrecisions ==
    Called("average_percision_at_k")
    /\ HitPositions(args.relevant_items, args.ranking, args.k) # {}
        => IsMeanPrecision(result,
                           HitPositions(args.relevant_items, args.ranking, args.k),
                           PrefixLen(args.ranking, args.k))

\* C4: for every k >= len(ranking) average_percision_at_k returns what it
\* returns for k = len(ranking), and the documented call of
\* mean_average_percision_at_k with the default k returns 17/24.
C4_LargeKUsesFullRanking ==
    /\ Called("average_percision_at_k")
       /\ Len(args.ranking) > 0 /\ args.k >= Len(args.ranking)
         => result = average_percision_at_k(args.relevant_items, args.ranking,
                                            Len(args.ranking))
    /\ Called("mean_average_percision_at_k")
       /\ args.relevant_items = DocRelevantItems /\ args.rankings = DocRankings
       /\ args.k = DefaultK
         => IsRatio(result, 17, 24)

C6_MeanOverZippedPairs ==
    Called("mean_average_percision_at_k")
        => /\ result.kind = "raise"
                <=> \E i \in DOMAIN PairAPs : PairAPs[i].kind = "raise"
           /\ Len(PairAPs) > 0 /\ (\A i \in DOMAIN PairAPs : PairAPs[i].kind = "float")
                => IsArithmeticMean(result, PairAPs)
           /\ args.relevant_items = DocRelevantItems /\ args.rankings = DocRankings
              /\ args.k = 3
                => IsRatio(result, 17, 24)

\* A call with more rankings than relevant-item rows that returns a number.
C6_Witness ==
    /\ Called("mean_average_percision_at_k")
    /\ Len(args.relevant_items) = 1 /\ Len(args.rankings) = 2
    /\ args.relevant_items[1] = <<1, 2>> /\ args.rankings[1] = <<3, 2, 1>>
    /\ args.k = 3
    /\ IsRatio(result, 7, 12)

\* C7: with no relevant item in the first min(k, len(ranking)) positions (of a
\* non-empty ranking) average_percision_at_k returns NaN, and mean_average_percision_at_k returns
\* NaN whenever one of its pairs yields NaN.
C7_NoHitsGiveNaN ==
    /\ Called("average_percision_at_k") /\ Len(args.ranking) > 0
       /\ HitPositions(args.relevant_items, args.ranking, args.k) = {}
         => result = NaN
    /\ Called("mean_average_percision_at_k")
       /\ (\E i \in DOMAIN PairAPs : PairAPs[i] = NaN)
         => result = NaN

\* C8: for non-empty relevant_items, mean_reciprocal_rank is the arithmetic
\* mean of reciprocal_rank(item, ranking) over the elements of relevant_items,
\* one term per occurrence; for a singleton it is the item's reciprocal_rank.
C8_MeanReciprocalRankIsMean ==
    Called("mean_reciprocal_rank") /\ Len(args.relevant_items) > 0
        => LET rrs == [i \in DOMAIN args.relevant_items |->
                          reciprocal_rank(args.relevant_items[i], args.ranking)]
           IN  /\ IF \E i \in DOMAIN rrs : rrs[i].kind = "raise"
                  THEN result = rrs[1]
                  ELSE IsArithmeticMean(result, rrs)
               /\ Len(rrs) = 1 => result = rrs[1]

\* A call with two different relevant items at ranks 3 and 1.
C8_Witness ==
    /\ Called("mean_reciprocal_rank")
    /\ args.relevant_items = <<1, 2>> /\ args.ranking = <<2, 3, 1>>
    /\ IsRatio(result, 2, 3)

\* C9: mean_reciprocal_rank of empty relevant_items, hits_at_k of an empty
\* ranking and mean_average_percision_at_k of an empty batch yield NaN or raise,
\* never a finite number.
C9_EmptyInputsAreNotNumbers ==
    /\ Called("mean_reciprocal_rank") /\ Len(args.relevant_items) = 0
         => result.kind \in {"nan", "raise"}
    /\ Called("hits_at_k") /\ Len(args.ranking) = 0
         => result.kind \in {"nan", "raise"}
    /\ Called("mean_average_percision_at_k")
       /\ (Len(args.relevant_items) = 0 \/ Len(args.rankings) = 0)
         => result.kind \in {"nan", "raise"}

\* A call of mean_reciprocal_rank without relevant items, on a real ranking.
C9_Witness ==
    /\ Called("mean_reciprocal_rank")
    /\ args.relevant_items = <<>> /\ args.ranking = <<1, 2>>
    /\ result = NaN

\* C10: a defined value of average_percision_at_k lies in (0, 1] and is 1 iff
\* the hits of the considered prefix are at positions 1..h; reciprocal_rank and
\* mean_reciprocal_rank (non-empty relevant_items, non-empty ranking) lie in (0, 1].
C10_Ranges ==
    /\ Called("average_percision_at_k") /\ result.kind \notin {"nan", "raise"}
         => /\ InUnitInterval(result)
            /\ result.num = result.den
                 <=> LET H == HitPositions(args.relevant_items, args.ranking, args.k)
                     IN  H = 1..Cardinality(H)
    /\ Called("reciprocal_rank") /\ Len(args.ranking) > 0
         => InUnitInterval(result)
    /\ Called("mean_reciprocal_rank")
       /\ Len(args.relevant_items) > 0 /\ Len(args.ranking) > 0
         => InUnitInterval(result)

\* A call with two hits behind a miss: a defined value below 1.
C10_Witness ==
    /\ Called("average_percision_at_k")
    /\ args.relevant_items = <<1, 2>> /\ args.ranking = <<3, 2, 1>> /\ args.k = 3
    /\ IsRatio(result, 7, 12)

====
